---- MODULE Spec2Model ----
(***************************************************************************)
(* Verification model of the stockvn repository: the merge-by-key writer   *)
(* of finance.py, the SQLite/Sheets archiver of data_archiver.py, the      *)
(* alert cooldown of alerts.py, the cached configuration of config.py,     *)
(* the price scraper of price.py and the watchlist editor of               *)
(* ticker_manager.py.  Each subsystem has its own specification; the       *)
(* variables of the other subsystems stay at their initial values.         *)
(***************************************************************************)
EXTENDS Integers, Sequences, FiniteSets, TLC

VARIABLES
    finSheet,   \* finance.py: the worksheet written by write_to_sheet
    finOld,     \* finance.py: the worksheet as it was before the last call
    finNew,     \* finance.py: the new_df argument of the last call
    finRes      \* finance.py: outcome of the call, "none" between calls

finVars == <<finSheet, finOld, finNew, finRes>>

VARIABLES
    today,       \* datetime.now() as a day number
    histSheet,   \* the rows of the price_history worksheet, <<timestamp, ticker>>
    sqliteRows,  \* the rows of the SQLite table price_history
    archPc,      \* archive_old_data: "idle", "insert", "clear" or "update"
    archOld,     \* archive_old_data: old_data
    archRecent,  \* archive_old_data: recent_data
    archCutoff,  \* archive_old_data: cutoff_date
    archBefore,  \* price_history as archive_old_data read it
    archRes      \* outcome of the last archive_old_data run

archVars == <<today, histSheet, sqliteRows, archPc, archOld, archRecent,
              archCutoff, archBefore, archRes>>

VARIABLES
    alertNow,     \* datetime.now() in hours
    alertRows,    \* the records of the alerts worksheet
    alertFired,   \* rows the last check_alerts run triggered
    alertPrev,    \* per row, the time of its latest recorded trigger before that run
    alertRec      \* per row, the time of its latest recorded trigger

alertVars == <<alertNow, alertRows, alertFired, alertPrev, alertRec>>

VARIABLES
    cfgNow,      \* datetime.now() of the process that uses config.py
    cfgExists,   \* the spreadsheet has a worksheet "config"
    cfgSheet,    \* per key, the value cell of its row in "config"
    cfgCache,    \* _config_cache
    cfgStamp,    \* _cache_timestamp: <<>> for None, <<t>> otherwise
    cfgPend,     \* per key, the value of an update_config not yet read back
    cfgLast      \* the last call of get_config / update_config and its result

cfgVars == <<cfgNow, cfgExists, cfgSheet, cfgCache, cfgStamp, cfgPend, cfgLast>>

VARIABLES
    priceSheet,    \* the records of the worksheet "price"
    pricePc,       \* price.py: "idle", "fetch", "write" or "done"
    priceTickers,  \* price.py: tickers
    priceMode,     \* price.py: args.mode
    priceIdx,      \* price.py: idx of the fetch loop
    priceAll,      \* price.py: the rows of all_data
    priceLog,      \* price.py: per ticker handled so far, what the loop printed
    priceLast,     \* price.py: the sources queried for the latest ticker, and what they answered
    priceBefore,   \* "price" as it was when the run started
    priceRun       \* number of runs of price.py so far

priceVars == <<priceSheet, pricePc, priceTickers, priceMode, priceIdx, priceAll,
               priceLog, priceLast, priceBefore, priceRun>>

VARIABLES
    wlSheet,   \* the first-column cells of "watchlist_flow" below the header
    wlNotes,   \* the note cells of the same rows
    wlLast     \* the last call that edited "watchlist_flow" and its result

wlVars == <<wlSheet, wlNotes, wlLast>>

VARIABLES
    calTime,   \* vietnam_holidays.py: the datetime that was checked last
    calRes     \* what is_trading_day and is_trading_hours returned for it

calVars == <<calTime, calRes>>

VARIABLES
    taFrame,   \* technical_analysis.py: the bars of the frame analysed last
    taRes      \* what find_support_resistance returned for it

taVars == <<taFrame, taRes>>

VARIABLES
    rcGrid,    \* watchlist.py: column A of the watchlist sheet, header included
    rcPc,      \* the gspread call each client makes next
    rcCall,    \* the function each client is in, and its ticker
    rcCopy,    \* the rows each client is about to write back
    rcOk       \* what each client's call returned

rcVars == <<rcGrid, rcPc, rcCall, rcCopy, rcOk>>

finOthers == <<archVars, alertVars, cfgVars, priceVars, wlVars, calVars, taVars, rcVars>>
archOthers == <<finVars, alertVars, cfgVars, priceVars, wlVars, calVars, taVars, rcVars>>
alertOthers == <<finVars, archVars, cfgVars, priceVars, wlVars, calVars, taVars, rcVars>>
cfgOthers == <<finVars, archVars, alertVars, priceVars, wlVars, calVars, taVars, rcVars>>
priceOthers == <<finVars, archVars, alertVars, cfgVars, wlVars, calVars, taVars, rcVars>>
wlOthers == <<finVars, archVars, alertVars, cfgVars, priceVars, calVars, taVars, rcVars>>
calOthers == <<finVars, archVars, alertVars, cfgVars, priceVars, wlVars, taVars, rcVars>>
taOthers == <<finVars, archVars, alertVars, cfgVars, priceVars, wlVars, calVars, rcVars>>
rcOthers == <<finVars, archVars, alertVars, cfgVars, priceVars, wlVars, calVars, taVars>>

----------------------------------------------------------------------------
(* Bounds                                                                  *)

MaxNewRows == 1      \* rows of a new_df handed to write_to_sheet
MaxFinRows == 3      \* rows the finance worksheet may hold
MaxDay == 3          \* the clock runs over days 0..MaxDay
MaxHistRows == 3     \* rows the price_history worksheet may hold
RetentionDays == 1   \* get_config("data_retention_days", 30), scaled down
MaxHour == 4         \* the alert clock runs over hours 0..MaxHour
CooldownHours == 2   \* get_config("alert_cooldown_hours", 1), scaled
MaxCfgTime == 3      \* the config clock runs over 0..MaxCfgTime

\* runs of price.py
MaxRuns == 2

\* rows of watchlist_flow below the header
MaxWatch == 3
CACHE_TTL_SECONDS == 2   \* config.py line 21 (300 s), in clock ticks

----------------------------------------------------------------------------
(* Cells.  A key cell is <<type, n>>: an int n, the string of the digits   *)
(* of n, the empty string (n = 0) or NaN.                                  *)

IntCell(n) == <<"int", n>>
StrCell(n) == <<"str", n>>
Blank == <<"str", 0>>
NaN == <<"nan", 0>>
NaNTicker == "~nan"

FinTickers == {"A", "B"}
KeyCols == {"ticker", "year", "quarter"}

\* str.lower().str.replace(' ', '_') on a column name
NormCol(c) ==
    CASE c = "Ticker" -> "ticker"
      [] c = "Year" -> "year"
      [] c = "Quarter" -> "quarter"
      [] OTHER -> c

NormCols(cols) == {NormCol(c) : c \in cols}

\* Series.astype(str) on one cell
AsStr(c) == IF c[1] = "nan" THEN <<"str", -1>> ELSE <<"str", c[2]>>

\* gspread get_all_records numericises what ws.update wrote with astype(str)
\* after fillna('')
ReadBackCell(c) ==
    IF c[1] = "nan" \/ c[2] = 0 THEN Blank
    ELSE IF c[2] < 0 THEN c ELSE IntCell(c[2])

ReadBackTicker(t) == IF t = NaNTicker THEN "" ELSE t

ReadBackRow(r) ==
    [ticker |-> ReadBackTicker(r.ticker), year |-> ReadBackCell(r.year),
     quarter |-> ReadBackCell(r.quarter), rev |-> r.rev]

EmptyTable == [cols |-> {}, rows |-> <<>>]

\* get_existing_data: the records of the sheet, or an empty frame
get_existing_data(sheet) == sheet

\* a frame reindexed to the columns cols: a column it lacks is NaN
Reindex(row, have, cols) ==
    [ticker |-> IF "ticker" \in have \/ "ticker" \notin cols THEN row.ticker ELSE NaNTicker,
     year |-> IF "year" \in have \/ "year" \notin cols THEN row.year ELSE NaN,
     quarter |-> IF "quarter" \in have \/ "quarter" \notin cols THEN row.quarter ELSE NaN,
     rev |-> row.rev]

\* pd.concat([a, b], ignore_index=True)
Concat(a, b) ==
    LET cols == a.cols \cup b.cols
        ra == [i \in 1..Len(a.rows) |-> Reindex(a.rows[i], a.cols, cols)]
        rb == [i \in 1..Len(b.rows) |-> Reindex(b.rows[i], b.cols, cols)]
    IN [cols |-> cols, rows |-> ra \o rb]

\* combined_df[col] = combined_df[col].astype(str) for col in valid_keys
StringifyKeys(row, valid) ==
    [ticker |-> row.ticker,
     year |-> IF "year" \in valid THEN AsStr(row.year) ELSE row.year,
     quarter |-> IF "quarter" \in valid THEN AsStr(row.quarter) ELSE row.quarter,
     rev |-> row.rev]

\* the values of a row in the columns of subset
KeyOf(row, valid) ==
    <<IF "ticker" \in valid THEN row.ticker ELSE "",
      IF "year" \in valid THEN row.year ELSE Blank,
      IF "quarter" \in valid THEN row.quarter ELSE Blank>>

\* drop_duplicates(subset=valid, keep='last'): a seeded fault of keep='first'
DropDuplicatesKeepLast(rows, valid) ==
    LET keep == {i \in 1..Len(rows) :
                   \A j \in (i+1)..Len(rows) : KeyOf(rows[j], valid) # KeyOf(rows[i], valid)}
        F[i \in 0..Len(rows)] ==
            IF i = 0 THEN <<>>
            ELSE IF i \in keep THEN Append(F[i-1], rows[i]) ELSE F[i-1]
    IN F[Len(rows)]

\* drop_duplicates(subset=valid, keep='first')
DropDuplicates(rows, valid) ==
    LET keep == {i \in 1..Len(rows) :
                   \A j \in 1..(i-1) : KeyOf(rows[j], valid) # KeyOf(rows[i], valid)}
        F[i \in 0..Len(rows)] ==
            IF i = 0 THEN <<>>
            ELSE IF i \in keep THEN Append(F[i-1], rows[i]) ELSE F[i-1]
    IN F[Len(rows)]

\* sort order of one cell inside a column of one type (NaN sorts last)
CellRank(c) == IF c[1] = "nan" THEN 100 ELSE IF c[2] < 0 THEN 99 ELSE c[2]

TickerRank(t) ==
    CASE t = "" -> 0
      [] t = "A" -> 1
      [] t = "B" -> 2
      [] OTHER -> 100

\* combined_df.sort_values(sort_cols) compares rows column by column
RowLess(a, b, sortCols) ==
    LET ta == IF "ticker" \in sortCols THEN TickerRank(a.ticker) ELSE 0
        tb == IF "ticker" \in sortCols THEN TickerRank(b.ticker) ELSE 0
        ya == IF "year" \in sortCols THEN CellRank(a.year) ELSE 0
        yb == IF "year" \in sortCols THEN CellRank(b.year) ELSE 0
        qa == IF "quarter" \in sortCols THEN CellRank(a.quarter) ELSE 0
        qb == IF "quarter" \in sortCols THEN CellRank(b.quarter) ELSE 0
    IN \/ ta < tb
       \/ ta = tb /\ ya < yb
       \/ ta = tb /\ ya = yb /\ qa < qb

RECURSIVE InsertRow(_, _, _)
InsertRow(r, s, sortCols) ==
    IF s = <<>> THEN <<r>>
    ELSE IF RowLess(r, Head(s), sortCols) THEN <<r>> \o s
    ELSE <<Head(s)>> \o InsertRow(r, Tail(s), sortCols)

RECURSIVE SortRows(_, _)
SortRows(rows, sortCols) ==
    IF rows = <<>> THEN <<>>
    ELSE InsertRow(rows[Len(rows)], SortRows(SubSeq(rows, 1, Len(rows) - 1), sortCols), sortCols)

\* sort_values raises TypeError on a column that mixes ints and strings
MixedColumn(rows, col) ==
    \E i, j \in 1..Len(rows) :
        LET a == IF col = "year" THEN rows[i].year ELSE rows[i].quarter
            b == IF col = "year" THEN rows[j].year ELSE rows[j].quarter
        IN a[1] = "int" /\ b[1] = "str"

SortRaises(tbl) ==
    \E col \in {"year", "quarter"} : col \in tbl.cols /\ MixedColumn(tbl.rows, col)

\* subset_cols (finance.py line 156)
SubsetCols(newCols) ==
    IF "quarter" \in newCols THEN {"ticker", "year", "quarter"} ELSE {"ticker", "year"}

\* valid_keys (finance.py line 159)
ValidKeys(oldCols, newCols) ==
    {c \in SubsetCols(newCols) : c \in oldCols /\ c \in newCols}

\* step 2 of write_to_sheet: the combined frame
MergeFrames(sheet, new_df) ==
    LET old_df == [cols |-> NormCols(get_existing_data(sheet).cols),
                   rows |-> get_existing_data(sheet).rows]
    IN IF old_df.rows # <<>> THEN
          IF new_df.rows # <<>> THEN
             LET new_n == [cols |-> NormCols(new_df.cols), rows |-> new_df.rows]
                 valid_keys == ValidKeys(old_df.cols, new_n.cols)
             IN IF valid_keys # {} THEN
                   LET c == Concat(new_n, old_df)
                       s == [i \in 1..Len(c.rows) |-> StringifyKeys(c.rows[i], valid_keys)]
                   IN [cols |-> c.cols, rows |-> DropDuplicates(s, valid_keys)]
                ELSE Concat(old_df, new_n)
          ELSE old_df
       ELSE new_df

\* step 3 of write_to_sheet: sort, fillna(''), clear and update; the sheet
\* is kept as get_all_records reads it back
WrittenSheet(combined) ==
    LET sortCols == combined.cols \cap KeyCols
        sorted == IF sortCols # {} THEN SortRows(combined.rows, sortCols) ELSE combined.rows
    IN [cols |-> combined.cols,
        rows |-> [i \in 1..Len(sorted) |-> ReadBackRow(sorted[i])]]

\* the frames main and create_summary hand to write_to_sheet: every column
\* holds one dtype, and a column the frame lacks holds no value
\* (main sets df["Ticker"] and normalises the names, create_summary exports
\* ticker and year, and quarter for the quarterly summary)
NewColSets == {{"ticker", "year", "quarter"}, {"ticker", "year"}}

FinYears == {1}
FinQuarters == {1, 2}

NewKeys == FinTickers \X FinYears \X FinQuarters

ShapeRow(k, cols, dtype, rev) ==
    [ticker |-> IF "ticker" \in NormCols(cols) THEN k[1] ELSE "",
     year |-> IF "year" \in NormCols(cols) THEN <<dtype, k[2]>> ELSE Blank,
     quarter |-> IF "quarter" \in NormCols(cols) THEN IntCell(k[3]) ELSE Blank,
     rev |-> rev]

NewFrames ==
    {[cols |-> cols, rows |-> [i \in 1..Len(ks) |-> ShapeRow(ks[i], cols, dtype, rev)]] :
        cols \in NewColSets, dtype \in {"int", "str"}, rev \in {7, 8},
        ks \in UNION {[1..n -> NewKeys] : n \in 0..MaxNewRows}}

\* write_to_sheet(sheet_name, new_df)
write_to_sheet(new_df) ==
    LET combined == MergeFrames(finSheet, new_df)
    IN /\ finRes = "none"
       /\ Len(combined.rows) <= MaxFinRows
       /\ UNCHANGED finOthers
       /\ finOld' = finSheet
       /\ finNew' = new_df
       /\ IF combined.rows = <<>> THEN
             /\ finRes' = "nothing"
             /\ finSheet' = finSheet
          ELSE IF SortRaises(combined) THEN
             /\ finRes' = "error"
             /\ finSheet' = finSheet
          ELSE
             /\ finRes' = "written"
             /\ finSheet' = WrittenSheet(combined)

WriteToSheet == \E new_df \in NewFrames : write_to_sheet(new_df)

\* write_to_sheet returns: its locals old_df and new_df are gone
WriteReturn ==
    /\ finRes # "none"
    /\ finRes' = "none"
    /\ finOld' = EmptyTable
    /\ finNew' = EmptyTable
    /\ UNCHANGED finSheet
    /\ UNCHANGED finOthers

InitFinance ==
    /\ finSheet = EmptyTable
    /\ finOld = EmptyTable
    /\ finNew = EmptyTable
    /\ finRes = "none"

----------------------------------------------------------------------------
(* Claims about write_to_sheet                                             *)

\* the composite key of a row over the columns keys, as the sheet stores it
SheetKey(row, keys) == KeyOf(ReadBackRow(StringifyKeys(row, keys)), keys)

FinRowSet(tbl) == {tbl.rows[i] : i \in 1..Len(tbl.rows)}

\* the last call merged a non-empty frame into a non-empty sheet
MergedCall ==
    /\ finRes = "written"
    /\ finOld.rows # <<>>
    /\ finNew.rows # <<>>

\* old sheet and new frame both carry every column of the composite key
ShareKeyColumns ==
    LET newCols == NormCols(finNew.cols)
    IN /\ SubsetCols(newCols) \subseteq newCols
       /\ SubsetCols(newCols) \subseteq NormCols(finOld.cols)

C2_OldRowsKept ==
    MergedCall =>
        LET shared == ValidKeys(NormCols(finOld.cols), NormCols(finNew.cols))
        IN /\ \A o \in FinRowSet(finOld) :
                (\A n \in FinRowSet(finNew) : SheetKey(n, shared) # SheetKey(o, shared)) =>
                    \E s \in FinRowSet(finSheet) :
                        SheetKey(s, KeyCols) = SheetKey(o, KeyCols) /\ s.rev = o.rev
           /\ Len(finSheet.rows)
                = Cardinality({SheetKey(r, shared) : r \in FinRowSet(finOld) \cup FinRowSet(finNew)})

----------------------------------------------------------------------------
(* data_archiver.py: price_history in Google Sheets and in SQLite.  A row   *)
(* is <<timestamp, ticker>>, the primary key of the SQLite table; a         *)
(* timestamp is a day number, ordered as its "%Y-%m-%d" string is.          *)

HistTickers == {"A", "B"}

SeqToSet(s) == {s[i] : i \in 1..Len(s)}

\* df[df['timestamp'] < cutoff_date] (old = TRUE) or
\* df[df['timestamp'] >= cutoff_date] (old = FALSE), in sheet order
RECURSIVE SplitByCutoff(_, _, _)
SplitByCutoff(s, cutoff_date, old) ==
    IF s = <<>> THEN <<>>
    ELSE IF (Head(s)[1] < cutoff_date) = old
         THEN <<Head(s)>> \o SplitByCutoff(Tail(s), cutoff_date, old)
         ELSE SplitByCutoff(Tail(s), cutoff_date, old)

\* cutoff_date = now - timedelta(days=retention_days)
CutoffDate(now) == now - RetentionDays

\* a price collector appends today's row of a ticker to price_history
AppendPrice ==
    /\ archPc = "idle"
    /\ Len(histSheet) < MaxHistRows
    /\ \E t \in HistTickers : histSheet' = Append(histSheet, <<today, t>>)
    /\ archRes' = "none"
    /\ UNCHANGED <<today, sqliteRows, archPc, archOld, archRecent, archCutoff, archBefore>>
    /\ UNCHANGED archOthers

\* the date changes between two runs
NextDay ==
    /\ archPc = "idle"
    /\ today < MaxDay
    /\ today' = today + 1
    /\ archRes' = "none"
    /\ UNCHANGED <<histSheet, sqliteRows, archPc, archOld, archRecent, archCutoff, archBefore>>
    /\ UNCHANGED archOthers

\* archive_old_data up to init_database(): read the sheet and split it
ArchiveStart ==
    /\ archPc = "idle"
    /\ LET cutoff_date == CutoffDate(today)
           old_data == SplitByCutoff(histSheet, cutoff_date, TRUE)
           recent_data == SplitByCutoff(histSheet, cutoff_date, FALSE)
       IN /\ archCutoff' = cutoff_date
          /\ archBefore' = histSheet
          /\ IF histSheet = <<>> THEN
                /\ archRes' = "empty"
                /\ UNCHANGED <<archPc, archOld, archRecent>>
             ELSE IF old_data = <<>> THEN
                /\ archRes' = "nothing"
                /\ UNCHANGED <<archPc, archOld, archRecent>>
             ELSE
                /\ archRes' = "running"
                /\ archPc' = "insert"
                /\ archOld' = old_data
                /\ archRecent' = recent_data
    /\ UNCHANGED <<today, histSheet, sqliteRows>>
    /\ UNCHANGED archOthers

\* to_sql(if_exists='append') raises IntegrityError on a primary key that is
\* already in the table or twice in the frame, and inserts nothing
PrimaryKeyConflict(frame, table) ==
    \/ \E i \in 1..Len(frame) : frame[i] \in table
    \/ \E i, j \in 1..Len(frame) : i # j /\ frame[i] = frame[j]

\* archive_df.to_sql(...), the metadata row and conn.commit()
ArchiveInsert ==
    /\ archPc = "insert"
    /\ IF PrimaryKeyConflict(archOld, sqliteRows) THEN
          /\ archRes' = "error"
          /\ archPc' = "idle"
          /\ UNCHANGED sqliteRows
       ELSE
          /\ sqliteRows' = sqliteRows \cup SeqToSet(archOld)
          /\ IF archRecent # <<>> THEN
                /\ archPc' = "clear"
                /\ UNCHANGED archRes
             ELSE
                /\ archPc' = "idle"
                /\ archRes' = "ok"
    /\ UNCHANGED <<today, histSheet, archOld, archRecent, archCutoff, archBefore>>
    /\ UNCHANGED archOthers

\* history_sheet.clear()
ArchiveClear ==
    /\ archPc = "clear"
    /\ histSheet' = <<>>
    /\ archPc' = "update"
    /\ UNCHANGED <<today, sqliteRows, archOld, archRecent, archCutoff, archBefore, archRes>>
    /\ UNCHANGED archOthers

\* history_sheet.update(header + recent_data)
ArchiveUpdate ==
    /\ archPc = "update"
    /\ histSheet' = archRecent
    /\ archPc' = "idle"
    /\ archRes' = "ok"
    /\ UNCHANGED <<today, sqliteRows, archOld, archRecent, archCutoff, archBefore>>
    /\ UNCHANGED archOthers

\* a SQLite or Sheets call raises: the except clause of archive_old_data
ArchiveFail ==
    /\ archPc \in {"insert", "clear", "update"}
    /\ archPc' = "idle"
    /\ archRes' = "error"
    /\ UNCHANGED <<today, histSheet, sqliteRows, archOld, archRecent, archCutoff, archBefore>>
    /\ UNCHANGED archOthers

Min(a, b) == IF a < b THEN a ELSE b
Max(a, b) == IF a > b THEN a ELSE b

\* get_historical_data(ticker, start_date, end_date): the rows it returns
get_historical_data(ticker, start_date, end_date) ==
    LET cutoff_date == CutoffDate(today)
        sqlite_df == {r \in sqliteRows :
                        /\ r[2] = ticker
                        /\ r[1] >= start_date
                        /\ r[1] <= Min(end_date, cutoff_date)}
        filtered == {r \in SeqToSet(histSheet) :
                        /\ r[2] = ticker
                        /\ r[1] >= Max(start_date, cutoff_date)
                        /\ r[1] <= end_date}
    IN sqlite_df \cup filtered

InitArchive ==
    /\ today = 0
    /\ histSheet = <<>>
    /\ sqliteRows = {}
    /\ archPc = "idle"
    /\ archOld = <<>>
    /\ archRecent = <<>>
    /\ archCutoff = 0
    /\ archBefore = <<>>
    /\ archRes = "none"

NextArchive ==
    \/ AppendPrice
    \/ NextDay
    \/ ArchiveStart
    \/ ArchiveInsert
    \/ ArchiveClear
    \/ ArchiveUpdate
    \/ ArchiveFail

\* C3: after archive_old_data completes without error on a sheet that had a
\* row older than the cutoff, every row older than the cutoff is in SQLite
\* and the sheet holds only rows at or after the cutoff.
C3_SheetOnlyRecent ==
    (archPc = "idle" /\ archRes = "ok") =>
        /\ \A r \in SeqToSet(archBefore) : r[1] < archCutoff => r \in sqliteRows
        /\ \A r \in SeqToSet(histSheet) : r[1] >= archCutoff

\* C4: get_historical_data returns every row of the ticker inside the date
\* range that is stored in the SQLite table or in the price_history sheet.
C4_UnifiedQuery ==
    archPc = "idle" =>
        \A t \in HistTickers, start_date \in 0..MaxDay, end_date \in 0..MaxDay :
            \A r \in sqliteRows \cup SeqToSet(histSheet) :
                (r[2] = t /\ start_date <= r[1] /\ r[1] <= end_date) =>
                    r \in get_historical_data(t, start_date, end_date)

\* C15: during a run of archive_old_data and when it has ended, with or
\* without an error, every row that was in the price_history sheet before
\* the run is in the SQLite table or in the sheet.
C15_NoRowLost ==
    (archPc # "idle" \/ archRes \in {"ok", "error"}) =>
        \A r \in SeqToSet(archBefore) : r \in sqliteRows \cup SeqToSet(histSheet)

----------------------------------------------------------------------------
(* alerts.py: alert rules with a cooldown.  The cell last_alert_time is     *)
(* <<>> for the empty string and <<t>> for the timestamp of hour t.         *)

\* the rules of create_sample_alerts_sheet, thresholds scaled
SampleAlerts ==
    {[ticker |-> "VNM", threshold_price |-> 2, alert_type |-> "price_below",
      enabled |-> "TRUE", last_alert_time |-> <<>>],
     [ticker |-> "VIC", threshold_price |-> 2, alert_type |-> "price_above",
      enabled |-> "TRUE", last_alert_time |-> <<>>],
     [ticker |-> "FPT", threshold_price |-> 2, alert_type |-> "volume_spike",
      enabled |-> "TRUE", last_alert_time |-> <<>>],
     [ticker |-> "HPG", threshold_price |-> 2, alert_type |-> "breakout",
      enabled |-> "TRUE", last_alert_time |-> <<>>]}

AlertRowCount == 2
AlertIdx == 1..AlertRowCount

\* what the data sheet may hold for one ticker: close (0 = no price),
\* volume, and the average volume of calculate_average_volume (0 = None)
MarketData ==
    {[close |-> 0, volume |-> 1, avg |-> 1],
     [close |-> 1, volume |-> 1, avg |-> 1],
     [close |-> 3, volume |-> 1, avg |-> 1],
     [close |-> 1, volume |-> 3, avg |-> 1],
     [close |-> 3, volume |-> 3, avg |-> 1],
     [close |-> 3, volume |-> 3, avg |-> 0]}

\* check_cooldown with the comparison reversed: a seeded fault
check_cooldown_reversed(last_alert_time, now, cooldown_hours) ==
    IF last_alert_time = <<>> THEN FALSE
    ELSE LET last_time == last_alert_time[1]
             hours_since == now - last_time
         IN hours_since >= cooldown_hours

\* check_cooldown(ticker, alert_type, last_alert_time, cooldown_hours)
check_cooldown(last_alert_time, now, cooldown_hours) ==
    IF last_alert_time = <<>> THEN FALSE
    ELSE LET last_time == last_alert_time[1]
             hours_since == now - last_time
         IN hours_since < cooldown_hours

\* the alert_type branches of check_alerts: is the condition met
ConditionMet(alert, current_price, current_volume, avg_volume) ==
    CASE alert.alert_type \in {"below", "price_below"} ->
            alert.threshold_price # 0 /\ current_price < alert.threshold_price
      [] alert.alert_type \in {"above", "price_above"} ->
            alert.threshold_price # 0 /\ current_price > alert.threshold_price
      [] alert.alert_type = "volume_spike" ->
            avg_volume # 0 /\ current_volume > avg_volume * alert.threshold_price
      [] alert.alert_type = "breakout" ->
            /\ current_price > alert.threshold_price
            /\ avg_volume # 0
            /\ 2 * current_volume > 3 * avg_volume
      [] OTHER -> FALSE

\* one iteration of the loop of check_alerts: does the rule trigger
Triggered(alert, now, close, volume, avg) ==
    /\ alert.enabled = "TRUE"
    /\ alert.ticker # ""
    /\ ~check_cooldown(alert.last_alert_time, now, CooldownHours)
    /\ close # 0
    /\ ConditionMet(alert, close, volume, avg)

\* check_alerts(): data gives the market data of the ticker of each row;
\* update_last_alert_time fails silently for the rows in failed
check_alerts(data, failed) ==
    LET hit == {i \in AlertIdx :
                  Triggered(alertRows[i], alertNow, data[i].close, data[i].volume, data[i].avg)}
    IN /\ alertFired' = hit
       /\ alertPrev' = alertRec
       /\ alertRows' = [i \in AlertIdx |->
             IF i \in hit /\ i \notin failed
             THEN [alertRows[i] EXCEPT !.last_alert_time = <<alertNow>>]
             ELSE alertRows[i]]
       /\ alertRec' = [i \in AlertIdx |->
             IF i \in hit /\ i \notin failed THEN <<alertNow>> ELSE alertRec[i]]
       /\ UNCHANGED alertNow
       /\ UNCHANGED alertOthers

CheckAlerts ==
    \E data \in [AlertIdx -> MarketData], failed \in SUBSET AlertIdx :
        check_alerts(data, failed)

\* time passes between two runs
AlertTick ==
    /\ alertNow < MaxHour
    /\ alertNow' = alertNow + 1
    /\ alertFired' = {}
    /\ UNCHANGED <<alertRows, alertPrev, alertRec>>
    /\ UNCHANGED alertOthers

InitAlerts ==
    /\ alertNow = 0
    /\ alertRows \in {r \in [AlertIdx -> SampleAlerts] : r[1] # r[2]}
    /\ alertFired = {}
    /\ alertPrev = [i \in AlertIdx |-> <<>>]
    /\ alertRec = [i \in AlertIdx |-> <<>>]

\* the alert variables while another subsystem runs
IdleAlerts ==
    /\ alertNow = 0
    /\ alertRows = [i \in AlertIdx |-> CHOOSE r \in SampleAlerts : r.ticker = "VNM"]
    /\ alertFired = {}
    /\ alertPrev = [i \in AlertIdx |-> <<>>]
    /\ alertRec = [i \in AlertIdx |-> <<>>]

NextAlerts == CheckAlerts \/ AlertTick

\* C5: once a run has triggered a rule at hour t and recorded
\* last_alert_time, no later run triggers that rule before t + cooldown.
C5_Cooldown ==
    \A i \in alertFired :
        alertPrev[i] # <<>> => alertNow >= alertPrev[i][1] + CooldownHours

\* a rule triggers again once its cooldown is over
C5_Witness ==
    \E i \in alertFired :
        /\ alertPrev[i] # <<>>
        /\ alertNow = alertPrev[i][1] + CooldownHours

----------------------------------------------------------------------------
(* config.py: get_config / update_config over the worksheet "config".      *)
(* A value is <<"int", n>>, <<"str", n>> (the digits of n as a string),     *)
(* <<"txt", n>> (a string that is no number), <<"str", 0>> (the empty       *)
(* string), <<"none", 0>> (None) or <<"absent", 0>> (no such row or entry). *)

TxtCell(n) == <<"txt", n>>
None == <<"none", 0>>
Absent == <<"absent", 0>>

ConfigKeys == {"data_retention_days", "custom_key"}

\* values handed to update_config or typed into the sheet
CfgValues == {IntCell(0), IntCell(5), StrCell(5), TxtCell(1)}

\* default_config: os.getenv defaults of the keys the module knows
EnvDefault(key) == IF key = "data_retention_days" THEN IntCell(3) ELSE Absent

\* the rows create_default_config_sheet writes
DefaultSheet(key) == IF key = "data_retention_days" THEN StrCell(3) ELSE Absent

\* get_all_records on a cell: a numeric string comes back as a number
Numericise(v) == IF v[1] = "str" /\ v[2] # 0 THEN IntCell(v[2]) ELSE v

\* "if key_name and value": Python truthiness of the cell
Truthy(v) == v \notin {IntCell(0), Blank, None, Absent}

\* int(value) / float(value), the value itself on ValueError
ConvertValue(v) == IF v[1] \in {"int", "str"} /\ v # Blank THEN IntCell(v[2]) ELSE v

\* the dictionary get_config builds when it reads the sheet
LoadedConfig(readable) ==
    [k \in ConfigKeys |->
        IF readable /\ cfgExists /\ cfgSheet[k] # Absent /\ Truthy(Numericise(cfgSheet[k]))
        THEN ConvertValue(Numericise(cfgSheet[k]))
        ELSE EnvDefault(k)]

\* _config_cache.get(key, default)
CacheGet(cache, key, default) == IF cache[key] = Absent THEN default ELSE cache[key]

\* seconds since the load that filled the cache, -1 without a load
CacheAge == IF cfgStamp = <<>> THEN -1 ELSE cfgNow - cfgStamp[1]

CacheFresh ==
    cfgStamp # <<>> /\ cfgNow - cfgStamp[1] < CACHE_TTL_SECONDS

\* get_config(key, default); readable: the Sheets calls succeed
get_config(key, default, readable) ==
    IF CacheFresh THEN
        /\ cfgLast' = [op |-> "get", key |-> key, res |-> CacheGet(cfgCache, key, default),
                       read |-> FALSE, ok |-> TRUE, cell |-> Absent,
                       default |-> default, pend |-> cfgPend[key],
                       age |-> CacheAge]
        /\ cfgPend' = [cfgPend EXCEPT ![key] = <<>>]
        /\ UNCHANGED <<cfgNow, cfgExists, cfgSheet, cfgCache, cfgStamp>>
    ELSE
        /\ cfgCache' = LoadedConfig(readable)
        /\ cfgStamp' = <<cfgNow>>
        /\ cfgExists' = (cfgExists \/ readable)
        /\ cfgSheet' = IF readable /\ ~cfgExists
                       THEN [k \in ConfigKeys |-> DefaultSheet(k)] ELSE cfgSheet
        /\ cfgLast' = [op |-> "get", key |-> key,
                       res |-> CacheGet(LoadedConfig(readable), key, default),
                       read |-> TRUE, ok |-> readable /\ cfgExists,
                       cell |-> IF readable /\ cfgExists THEN cfgSheet[key] ELSE Absent,
                       default |-> default, pend |-> cfgPend[key],
                       age |-> CacheAge]
        /\ cfgPend' = IF readable THEN [cfgPend EXCEPT ![key] = <<>>]
                      ELSE [k \in ConfigKeys |-> <<>>]
        /\ UNCHANGED cfgNow

GetConfig ==
    /\ \E key \in ConfigKeys, default \in {None, IntCell(1)}, readable \in BOOLEAN :
          get_config(key, default, readable)
    /\ UNCHANGED cfgOthers

\* update_config(key, value); readable: the Sheets calls succeed
update_config(key, value, readable) ==
    IF readable /\ cfgExists /\ cfgSheet[key] # Absent THEN
        /\ cfgSheet' = [cfgSheet EXCEPT ![key] = value]
        /\ cfgStamp' = <<>>
        /\ cfgPend' = [cfgPend EXCEPT ![key] = <<value>>]
        /\ cfgLast' = [op |-> "update", key |-> key, res |-> value, read |-> TRUE,
                       ok |-> TRUE, cell |-> value, default |-> None, pend |-> <<>>, age |-> CacheAge]
        /\ UNCHANGED <<cfgNow, cfgExists, cfgCache>>
    ELSE
        /\ cfgLast' = [op |-> "update", key |-> key, res |-> value, read |-> TRUE,
                       ok |-> FALSE, cell |-> Absent, default |-> None, pend |-> <<>>, age |-> CacheAge]
        /\ UNCHANGED <<cfgNow, cfgExists, cfgSheet, cfgCache, cfgStamp, cfgPend>>

UpdateConfig ==
    /\ \E key \in ConfigKeys, value \in CfgValues, readable \in BOOLEAN :
          update_config(key, value, readable)
    /\ UNCHANGED cfgOthers

\* a user adds or edits a row of the worksheet by hand
EditConfigSheet ==
    /\ cfgExists
    /\ \E key \in ConfigKeys, value \in CfgValues :
          /\ cfgSheet' = [cfgSheet EXCEPT ![key] = value]
          /\ cfgPend' = [cfgPend EXCEPT ![key] = <<>>]
          /\ cfgLast' = [op |-> "edit", key |-> key, res |-> value, read |-> FALSE,
                         ok |-> TRUE, cell |-> value, default |-> None, pend |-> <<>>, age |-> CacheAge]
    /\ UNCHANGED <<cfgNow, cfgExists, cfgCache, cfgStamp>>
    /\ UNCHANGED cfgOthers

CfgTick ==
    /\ cfgNow < MaxCfgTime
    /\ cfgNow' = cfgNow + 1
    /\ UNCHANGED <<cfgExists, cfgSheet, cfgCache, cfgStamp, cfgPend, cfgLast>>
    /\ UNCHANGED cfgOthers

InitConfig ==
    /\ cfgNow = 0
    /\ cfgExists = FALSE
    /\ cfgSheet = [k \in ConfigKeys |-> Absent]
    /\ cfgCache = [k \in ConfigKeys |-> Absent]
    /\ cfgStamp = <<>>
    /\ cfgPend = [k \in ConfigKeys |-> <<>>]
    /\ cfgLast = [op |-> "none", key |-> "custom_key", res |-> None, read |-> FALSE,
                  ok |-> FALSE, cell |-> Absent, default |-> None, pend |-> <<>>, age |-> CacheAge]

NextConfig == GetConfig \/ UpdateConfig \/ EditConfigSheet \/ CfgTick

\* C6: after update_config(key, value) succeeded, the next get_config(key)
\* returns value (as the sheet stores it), however recent the last load.
C6_ReadYourWrite ==
    (cfgLast.op = "get" /\ cfgLast.pend # <<>> /\ (cfgLast.read => cfgLast.ok)) =>
        cfgLast.res = ConvertValue(Numericise(cfgLast.pend[1]))

\* C7: get_config returns the sheet's value for a key the sheet defines, the
\* environment/default value for a key it does not define or when the sheet
\* cannot be read, and answers from the cache within the TTL of a load.
C7_SheetThenEnv ==
    cfgLast.op = "get" =>
        /\ (cfgLast.read /\ cfgLast.ok /\ cfgLast.cell \notin {Absent, Blank}) =>
              cfgLast.res = ConvertValue(Numericise(cfgLast.cell))
        /\ (cfgLast.read /\ (~cfgLast.ok \/ cfgLast.cell = Absent)) =>
              cfgLast.res = CacheGet([k \in ConfigKeys |-> EnvDefault(k)],
                                     cfgLast.key, cfgLast.default)
        /\ (cfgLast.age >= 0 /\ cfgLast.age < CACHE_TTL_SECONDS) => ~cfgLast.read

----------------------------------------------------------------------------
(* price.py: the fetch loop with its fallback over three sources, and the  *)
(* write of the worksheet "price".  A row is a ticker, a date and the run  *)
(* that fetched its figures; ticker and date are text in the sheet and in  *)
(* final_df (astype(str)), so the read-back does not change them.          *)

\* the symbols a watchlist or --tickers can name
PriceTickers == {"A", "B"}

\* the days a fetch can return
PriceDates == {1, 2}

\* tickers: from --tickers (a ticker can be named twice) or from watchlist_flow
TickerLists == {<<"A">>, <<"B">>, <<"A", "B">>, <<"A", "A">>}

\* args.mode; realtime takes the same branch as historical
Modes == {"update", "historical"}

sources_to_try == <<"SSI", "VCI", "TCBS">>

\* what quote.history does: raise, return None or an empty frame, return rows
Outcomes == {"raise", "empty", "data"}

SourceAnswers == [SeqToSet(sources_to_try) -> Outcomes]

\* the frames a source can return: one row per day, days ascending
FetchedDates == {<<2>>, <<1, 2>>}

PriceRow(t, d, v) == [ticker |-> t, date |-> d, val |-> v]

PriceKey(r) == <<r.ticker, r.date>>

\* df[df['ticker'].isin(current_tickers)]
RECURSIVE FilterTickers(_, _)
FilterTickers(s, current) ==
    IF s = <<>> THEN <<>>
    ELSE (IF Head(s).ticker \in current THEN <<Head(s)>> ELSE <<>>)
             \o FilterTickers(Tail(s), current)

\* cleanup_removed_tickers for the sheet "price": an empty sheet is skipped,
\* the sheet is rewritten only when rows go, and any error is swallowed
cleanup_removed_tickers(sheet, current_tickers, fails) ==
    IF fails \/ sheet = <<>> THEN sheet
    ELSE LET df_cleaned == FilterTickers(sheet, SeqToSet(current_tickers))
             rows_removed == Len(sheet) - Len(df_cleaned)
         IN  IF rows_removed > 0 THEN df_cleaned ELSE sheet

\* a seeded fault: only the first source is queried
TrySourcesFirstOnly(i, out, tried) ==
    [tried |-> Append(tried, sources_to_try[i]), got |-> out[sources_to_try[i]] = "data"]

\* for source in sources_to_try: the loop breaks at the first non-empty frame
\* and goes on to the next source after an exception or an empty answer
RECURSIVE TrySources(_, _, _)
TrySources(i, out, tried) ==
    IF i > Len(sources_to_try) THEN [tried |-> tried, got |-> FALSE]
    ELSE LET source == sources_to_try[i]
         IN  IF out[source] = "data"
             THEN [tried |-> Append(tried, source), got |-> TRUE]
             ELSE TrySources(i + 1, out, Append(tried, source))

\* the frame of one ticker, with df['ticker'] = ticker
FrameOf(ticker, dates, v) == [i \in 1..Len(dates) |-> PriceRow(ticker, dates[i], v)]

\* the order of the ticker strings
PriceRank(t) == IF t = "A" THEN 1 ELSE 2

PriceLess(a, b) ==
    \/ PriceRank(a.ticker) < PriceRank(b.ticker)
    \/ a.ticker = b.ticker /\ a.date < b.date

RECURSIVE PriceInsert(_, _)
PriceInsert(r, s) ==
    IF s = <<>> THEN <<r>>
    ELSE IF PriceLess(r, Head(s)) THEN <<r>> \o s
    ELSE <<Head(s)>> \o PriceInsert(r, Tail(s))

\* sort_values(['ticker', 'date'])
RECURSIVE PriceSort(_)
PriceSort(s) == IF s = <<>> THEN <<>> ELSE PriceInsert(s[Len(s)], PriceSort(SubSeq(s, 1, Len(s) - 1)))

\* drop_duplicates(subset=['ticker', 'date'], keep='last')
RECURSIVE PriceDropDuplicates(_)
PriceDropDuplicates(s) ==
    IF s = <<>> THEN <<>>
    ELSE IF \E i \in 2..Len(s) : PriceKey(s[i]) = PriceKey(Head(s))
         THEN PriceDropDuplicates(Tail(s))
         ELSE <<Head(s)>> \o PriceDropDuplicates(Tail(s))

NoFetch == <<>>

\* lines 96-124: the ticker list is settled, then cleanup_removed_tickers runs
StartPrice ==
    /\ pricePc = "idle"
    /\ priceRun < MaxRuns
    /\ \E tickers \in TickerLists, mode \in Modes, fails \in BOOLEAN :
          /\ priceTickers' = tickers
          /\ priceMode' = mode
          /\ priceSheet' = cleanup_removed_tickers(priceSheet, tickers, fails)
    /\ priceBefore' = priceSheet
    /\ priceRun' = priceRun + 1
    /\ pricePc' = "fetch"
    /\ priceIdx' = 1
    /\ priceAll' = <<>>
    /\ priceLog' = <<>>
    /\ priceLast' = NoFetch
    /\ UNCHANGED priceOthers

\* one pass of the loop of lines 141-179
FetchTicker ==
    /\ pricePc = "fetch"
    /\ priceIdx <= Len(priceTickers)
    /\ \E out \in SourceAnswers, dates \in FetchedDates, raises \in BOOLEAN :
          LET ticker == priceTickers[priceIdx]
              r == TrySources(1, out, <<>>)
              report == IF ~r.got THEN "nodata" ELSE IF raises THEN "error" ELSE "ok"
          IN  /\ raises => r.got
              /\ priceAll' = IF report = "ok"
                             THEN priceAll \o FrameOf(ticker, dates, priceRun)
                             ELSE priceAll
              /\ priceLog' = Append(priceLog, [ticker |-> ticker, report |-> report])
              /\ priceLast' = <<[tried |-> r.tried,
                                 answers |-> [i \in 1..Len(r.tried) |-> out[r.tried[i]]],
                                 report |-> report]>>
    /\ priceIdx' = priceIdx + 1
    /\ pricePc' = IF priceIdx = Len(priceTickers) THEN "write" ELSE "fetch"
    /\ UNCHANGED <<priceSheet, priceTickers, priceMode, priceBefore, priceRun>>
    /\ UNCHANGED priceOthers

\* lines 182-222
WritePrice ==
    /\ pricePc = "write"
    /\ LET final_df == PriceSort(priceAll)
           existing_data == priceSheet
       IN  priceSheet' =
               IF priceAll = <<>> THEN priceSheet
               ELSE IF priceMode = "update" /\ existing_data # <<>>
                    THEN PriceSort(PriceDropDuplicates(existing_data \o final_df))
                    ELSE final_df
    /\ pricePc' = "done"
    /\ UNCHANGED <<priceTickers, priceMode, priceIdx, priceAll, priceLog, priceLast,
                   priceBefore, priceRun>>
    /\ UNCHANGED priceOthers

\* the process ends
PriceReturn ==
    /\ pricePc = "done"
    /\ pricePc' = "idle"
    /\ priceTickers' = <<>>
    /\ priceMode' = "historical"
    /\ priceIdx' = 1
    /\ priceAll' = <<>>
    /\ priceLog' = <<>>
    /\ priceLast' = NoFetch
    /\ priceBefore' = <<>>
    /\ UNCHANGED <<priceSheet, priceRun>>
    /\ UNCHANGED priceOthers

\* no run of price.py is under way
IdleRun ==
    /\ pricePc = "idle"
    /\ priceTickers = <<>>
    /\ priceMode = "historical"
    /\ priceIdx = 1
    /\ priceAll = <<>>
    /\ priceLog = <<>>
    /\ priceLast = NoFetch
    /\ priceBefore = <<>>
    /\ priceRun = 0

\* the sheet "price" as line 120 creates it
IdlePrice == IdleRun /\ priceSheet = <<>>

\* "price" is new, or holds what an earlier historical run wrote for A and B
InitPrice ==
    /\ IdleRun
    /\ priceSheet \in {<<>>, <<PriceRow("A", 1, 0), PriceRow("B", 1, 0)>>}

NextPrice == StartPrice \/ FetchTicker \/ WritePrice \/ PriceReturn

PriceKeys(s) == {PriceKey(r) : r \in SeqToSet(s)}

PriceNoDuplicates(s) == \A i, j \in 1..Len(s) : PriceKey(s[i]) = PriceKey(s[j]) => i = j

IsPrefix(s, t) == Len(s) <= Len(t) /\ \A i \in 1..Len(s) : s[i] = t[i]

\* C8: the sources are queried in the order SSI, VCI, TCBS up to the first
\* that returns rows; a ticker is reported without data only if all three
\* raised or returned nothing; every ticker of the list is handled, whatever
\* happened to the tickers before it.
C8_SourceFallback ==
    /\ priceLast # NoFetch =>
          LET l == priceLast[1]
              n == Len(l.tried)
          IN  /\ n >= 1 /\ IsPrefix(l.tried, sources_to_try)
              /\ \A i \in 1..(n - 1) : l.answers[i] # "data"
              /\ n < Len(sources_to_try) => l.answers[n] = "data"
              /\ l.report = "nodata" =>
                    /\ l.tried = sources_to_try
                    /\ \A i \in 1..n : l.answers[i] \in {"raise", "empty"}
              /\ l.report # "nodata" => l.answers[n] = "data"
    /\ pricePc = "fetch" => Len(priceLog) = priceIdx - 1
    /\ pricePc \in {"write", "done"} =>
          /\ Len(priceLog) = Len(priceTickers)
          /\ \A i \in 1..Len(priceTickers) : priceLog[i].ticker = priceTickers[i]

\* a run in which the first ticker failed on every source and the second
\* ticker was served by the second source
C8_Witness ==
    /\ pricePc = "done"
    /\ Len(priceLog) = 2
    /\ priceLog[1].report = "nodata"
    /\ priceLog[2].report = "ok"
    /\ priceLast # NoFetch
    /\ priceLast[1].tried = <<"SSI", "VCI">>
    /\ priceLast[1].answers[1] = "raise"

\* C9: a run in --mode update keeps every (ticker, date) of the sheet, its
\* fetched rows replace the rows of the same (ticker, date), and no
\* (ticker, date) is in the sheet twice.
C9_UpdateKeepsRows ==
    (pricePc = "done" /\ priceMode = "update") =>
        /\ PriceKeys(priceBefore) \subseteq PriceKeys(priceSheet)
        /\ \A f \in SeqToSet(priceAll) : \A r \in SeqToSet(priceSheet) :
              PriceKey(r) = PriceKey(f) => r = f
        /\ PriceNoDuplicates(priceSheet)

----------------------------------------------------------------------------
(* ticker_manager.py: the editor of the worksheet "watchlist_flow".  A     *)
(* string is a sequence of characters; the sheet is the sequence of the    *)
(* first-column cells below the header row.                                *)

Letters == {"A", "B", "C", "D", "E"}

LowerLetters == {"a", "b"}

\* what a user can type into the add and remove forms
RawTickers ==
    { <<"a", "b">>, <<" ", "A", "B", " ">>, <<"C", "D">>, <<"A", "B", "C", "D">>,
      <<"A">>, <<"A", "B", "C", "D", "E">>, <<"A", "1">>, <<" ">> }

\* str.upper, per character
UpperChar(c) == IF c = "a" THEN "A" ELSE IF c = "b" THEN "B" ELSE c

\* str.upper
Upper(s) == [i \in 1..Len(s) |-> UpperChar(s[i])]

RECURSIVE LStrip(_)
LStrip(s) == IF s # <<>> /\ Head(s) = " " THEN LStrip(Tail(s)) ELSE s

RECURSIVE RStrip(_)
RStrip(s) == IF s # <<>> /\ s[Len(s)] = " " THEN RStrip(SubSeq(s, 1, Len(s) - 1)) ELSE s

\* str.strip
Strip(s) == RStrip(LStrip(s))

\* str.isalpha: at least one character, and letters only
IsAlpha(s) == s # <<>> /\ \A i \in 1..Len(s) : s[i] \in Letters \cup LowerLetters

\* [t.strip().upper() for t in tickers if t.strip()]
RECURSIVE NormaliseCells(_)
NormaliseCells(cells) ==
    IF cells = <<>> THEN <<>>
    ELSE (IF Strip(Head(cells)) # <<>> THEN <<Upper(Strip(Head(cells)))>> ELSE <<>>)
             \o NormaliseCells(Tail(cells))

\* get_current_tickers: the normalised first column, [] when the read raises
get_current_tickers(sheet, fails) == IF fails THEN <<>> ELSE NormaliseCells(sheet)

Refused(sheet) == [ok |-> FALSE, sheet |-> sheet]

\* add_ticker: readFails is a failure inside get_current_tickers, writeFails
\* one of worksheet() or append_row()
add_ticker(sheet, raw, readFails, writeFails) ==
    LET ticker == Upper(Strip(raw))
    IN  IF ticker = <<>> \/ Len(ticker) < 2 \/ Len(ticker) > 4 THEN Refused(sheet)
        ELSE IF ~IsAlpha(ticker) THEN Refused(sheet)
        ELSE LET current_tickers == get_current_tickers(sheet, readFails)
             IN  IF ticker \in SeqToSet(current_tickers) THEN Refused(sheet)
                 ELSE IF writeFails THEN Refused(sheet)
                 ELSE [ok |-> TRUE, sheet |-> Append(sheet, ticker)]

\* ws.find(ticker): the row of the first cell of the sheet, row by row, that
\* equals ticker, 0 for None; the header, the sectors and the dates never
\* equal an upper-case ticker, a ticker cell or a note cell can
RECURSIVE Find(_, _, _, _)
Find(sheet, notes, ticker, i) ==
    IF i > Len(sheet) THEN 0
    ELSE IF sheet[i] = ticker \/ notes[i] = ticker THEN i
    ELSE Find(sheet, notes, ticker, i + 1)

\* ws.delete_rows(row)
DeleteRow(sheet, i) == SubSeq(sheet, 1, i - 1) \o SubSeq(sheet, i + 1, Len(sheet))

RefusedRows(sheet, notes) == [ok |-> FALSE, sheet |-> sheet, notes |-> notes]

\* remove_ticker
remove_ticker(sheet, notes, raw, readFails, writeFails) ==
    LET ticker == Upper(Strip(raw))
        current_tickers == get_current_tickers(sheet, readFails)
    IN  IF ticker \notin SeqToSet(current_tickers) THEN RefusedRows(sheet, notes)
        ELSE IF Len(current_tickers) <= 1 THEN RefusedRows(sheet, notes)
        ELSE IF writeFails THEN RefusedRows(sheet, notes)
        ELSE LET cell == Find(sheet, notes, ticker, 1)
             IN  IF cell # 0
                 THEN [ok |-> TRUE, sheet |-> DeleteRow(sheet, cell),
                       notes |-> DeleteRow(notes, cell)]
                 ELSE RefusedRows(sheet, notes)

Digits == {"1"}

\* get_all_records reads a cell that is a numeric literal back as a number,
\* and every other cell as the text it holds
RecordValue(cell) ==
    IF cell # <<>> /\ \A i \in 1..Len(cell) : cell[i] \in Digits
    THEN <<"number", cell>>
    ELSE cell

\* existing_df['ticker'].values
RecordTickers(sheet) == {RecordValue(sheet[i]) : i \in 1..Len(sheet)}

\* a seeded fault: the row is appended without looking at the sheet
add_to_watchlist_unchecked(sheet, notes, ticker, note, fails) ==
    IF fails THEN RefusedRows(sheet, notes)
    ELSE [ok |-> TRUE, sheet |-> Append(sheet, ticker), notes |-> Append(notes, note)]

\* watchlist.py, add_to_watchlist(ticker, 'flow', note): the same worksheet;
\* fails is get_spreadsheet() returning None or any gspread call raising
add_to_watchlist(sheet, notes, ticker, note, fails) ==
    IF fails THEN RefusedRows(sheet, notes)
    ELSE IF ticker \in RecordTickers(sheet) THEN [ok |-> TRUE, sheet |-> sheet, notes |-> notes]
    ELSE [ok |-> TRUE, sheet |-> Append(sheet, ticker), notes |-> Append(notes, note)]

\* existing_df[existing_df['ticker'] != ticker], for a sequence of cells that
\* runs parallel to the ticker cells
RECURSIVE FilterOut(_, _, _)
FilterOut(sheet, cells, ticker) ==
    IF sheet = <<>> THEN <<>>
    ELSE (IF RecordValue(Head(sheet)) # ticker THEN <<Head(cells)>> ELSE <<>>)
             \o FilterOut(Tail(sheet), Tail(cells), ticker)

\* watchlist.py, remove_from_watchlist(ticker, 'flow'): the rows that stay are
\* written back as text (astype(str)) under the same header
remove_from_watchlist(sheet, notes, ticker, fails) ==
    IF fails THEN RefusedRows(sheet, notes)
    ELSE IF sheet = <<>> \/ ticker \notin RecordTickers(sheet) THEN RefusedRows(sheet, notes)
    ELSE [ok |-> TRUE, sheet |-> FilterOut(sheet, sheet, ticker),
          notes |-> FilterOut(sheet, notes, ticker)]

AddTicker ==
    /\ \E raw \in RawTickers, readFails \in BOOLEAN, writeFails \in BOOLEAN :
          LET r == add_ticker(wlSheet, raw, readFails, writeFails)
          IN  /\ Len(r.sheet) <= MaxWatch
              /\ wlSheet' = r.sheet
              /\ wlNotes' = IF r.ok THEN Append(wlNotes, <<>>) ELSE wlNotes
              /\ wlLast' = [op |-> "add", ticker |-> Upper(Strip(raw)), ok |-> r.ok,
                            before |-> wlSheet, notes |-> wlNotes]
    /\ UNCHANGED wlOthers

RemoveTicker ==
    /\ \E raw \in RawTickers, readFails \in BOOLEAN, writeFails \in BOOLEAN :
          LET r == remove_ticker(wlSheet, wlNotes, raw, readFails, writeFails)
          IN  /\ wlSheet' = r.sheet
              /\ wlNotes' = r.notes
              /\ wlLast' = [op |-> "remove", ticker |-> Upper(Strip(raw)), ok |-> r.ok,
                            before |-> wlSheet, notes |-> wlNotes]
    /\ UNCHANGED wlOthers

\* the tickers handed to add_to_watchlist: the dashboard upper-cases them,
\* the command line of watchlist.py passes --add as typed
WatchArgs == { <<"A", "B">>, <<"C", "D">>, <<"a", "b">> }

\* --note: nothing, or a free text
WatchNotes == { <<>>, <<"A", "B">> }

AddToWatchlist ==
    /\ \E ticker \in WatchArgs, note \in WatchNotes, fails \in BOOLEAN :
          LET r == add_to_watchlist(wlSheet, wlNotes, ticker, note, fails)
          IN  /\ Len(r.sheet) <= MaxWatch
              /\ wlSheet' = r.sheet
              /\ wlNotes' = r.notes
              /\ wlLast' = [op |-> "watch", ticker |-> ticker, ok |-> r.ok,
                            before |-> wlSheet, notes |-> wlNotes, failed |-> fails]
    /\ UNCHANGED wlOthers

RemoveFromWatchlist ==
    /\ \E ticker \in WatchArgs, fails \in BOOLEAN :
          LET r == remove_from_watchlist(wlSheet, wlNotes, ticker, fails)
          IN  /\ wlSheet' = r.sheet
              /\ wlNotes' = r.notes
              /\ wlLast' = [op |-> "unwatch", ticker |-> ticker, ok |-> r.ok,
                            before |-> wlSheet, notes |-> wlNotes, failed |-> fails]
    /\ UNCHANGED wlOthers

NoCall == [op |-> "none", ticker |-> <<>>, ok |-> FALSE, before |-> <<>>, notes |-> <<>>]

\* watchlist_flow with its header row and no ticker
IdleWatch == wlSheet = <<>> /\ wlNotes = <<>> /\ wlLast = NoCall

\* watchlist_flow with its header row and no ticker, or one ticker
InitWatch ==
    /\ wlSheet \in {<<>>, << <<"A", "B">> >>}
    /\ wlNotes = [i \in 1..Len(wlSheet) |-> <<>>]
    /\ wlLast = NoCall

NextWatch == AddTicker \/ RemoveTicker \/ AddToWatchlist

\* the command line of watchlist.py, one call after the other
NextWatchlist == AddToWatchlist \/ RemoveFromWatchlist

\* 2 to 4 characters, letters only
ValidTicker(t) == Len(t) >= 2 /\ Len(t) <= 4 /\ \A i \in 1..Len(t) : t[i] \in Letters

\* the tickers of the watchlist
WatchTickers(sheet) == SeqToSet(NormaliseCells(sheet))

\* C10: add_ticker appends a row only for a ticker of 2 to 4 letters that
\* is not in the watchlist; otherwise it returns False and leaves the sheet
\* as it was; so the watchlist never holds a ticker twice.
C10_AddTicker ==
    /\ wlLast.op = "add" =>
          /\ wlSheet # wlLast.before =>
                /\ wlSheet = Append(wlLast.before, wlLast.ticker)
                /\ ValidTicker(wlLast.ticker)
                /\ wlLast.ticker \notin WatchTickers(wlLast.before)
          /\ (~ValidTicker(wlLast.ticker) \/ wlLast.ticker \in WatchTickers(wlLast.before)) =>
                ~wlLast.ok /\ wlSheet = wlLast.before
    /\ \A i, j \in 1..Len(wlSheet) :
          Upper(Strip(wlSheet[i])) = Upper(Strip(wlSheet[j])) => i = j

\* C11: a watchlist that holds a ticker is never left empty; remove_ticker
\* of a ticker that is not in the list returns False and changes nothing; a
\* successful remove_ticker deletes one row, a row of the named ticker.
C11_RemoveTicker ==
    /\ (wlLast.op # "none" /\ wlLast.before # <<>>) => wlSheet # <<>>
    /\ wlLast.op = "remove" =>
          /\ wlLast.ticker \notin WatchTickers(wlLast.before) =>
                ~wlLast.ok /\ wlSheet = wlLast.before /\ wlNotes = wlLast.notes
          /\ wlLast.ok =>
                \E i \in 1..Len(wlLast.before) :
                    /\ Upper(Strip(wlLast.before[i])) = wlLast.ticker
                    /\ wlSheet = DeleteRow(wlLast.before, i)
                    /\ wlNotes = DeleteRow(wlLast.notes, i)

----------------------------------------------------------------------------
(* vietnam_holidays.py: the trading calendar.                              *)

\* (month, day) of the fixed holidays
FIXED_HOLIDAYS == { <<1, 1>>, <<4, 30>>, <<5, 1>>, <<9, 2>> }

\* the Lunar New Year days, for the years the table has
LUNAR_NEW_YEAR ==
    [year \in 2024..2027 |->
        CASE year = 2024 -> {<<2, 8>>, <<2, 9>>, <<2, 10>>, <<2, 11>>, <<2, 12>>, <<2, 13>>,
                             <<2, 14>>}
          [] year = 2025 -> {<<1, 27>>, <<1, 28>>, <<1, 29>>, <<1, 30>>, <<1, 31>>, <<2, 1>>,
                             <<2, 2>>, <<2, 3>>, <<2, 4>>}
          [] year = 2026 -> {<<2, 15>>, <<2, 16>>, <<2, 17>>, <<2, 18>>, <<2, 19>>, <<2, 20>>,
                             <<2, 21>>}
          [] year = 2027 -> {<<2, 5>>, <<2, 6>>, <<2, 7>>, <<2, 8>>, <<2, 9>>, <<2, 10>>,
                             <<2, 11>>}]

\* Hung Kings day, for the years the table has
HUNG_VUONG ==
    [year \in 2024..2027 |->
        CASE year = 2024 -> <<4, 18>>
          [] year = 2025 -> <<4, 7>>
          [] year = 2026 -> <<4, 26>>
          [] year = 2027 -> <<4, 16>>]

\* the day number of a Gregorian date
DayNumber(year, month, day) ==
    LET a == (14 - month) \div 12
        y == year + 4800 - a
        m == month + 12 * a - 3
    IN  day + ((153 * m + 2) \div 5) + 365 * y + (y \div 4) - (y \div 100) + (y \div 400)
            - 32045

\* date.weekday(): 0 is Monday, 6 is Sunday
Weekday(d) == DayNumber(d.year, d.month, d.day) % 7

is_weekend(check_date) == Weekday(check_date) >= 5

is_holiday(check_date) ==
    LET md == <<check_date.month, check_date.day>>
        year == check_date.year
    IN  \/ md \in FIXED_HOLIDAYS
        \/ year \in DOMAIN LUNAR_NEW_YEAR /\ md \in LUNAR_NEW_YEAR[year]
        \/ year \in DOMAIN HUNG_VUONG /\ md = HUNG_VUONG[year]

is_trading_day(check_date) == ~(is_weekend(check_date) \/ is_holiday(check_date))

\* comparison of (hour, minute) tuples
TupleLeq(a, b) == a[1] < b[1] \/ (a[1] = b[1] /\ a[2] <= b[2])

\* the two sessions of a day
InSession(current_time) ==
    LET is_morning == TupleLeq(<<9, 0>>, current_time) /\ TupleLeq(current_time, <<11, 30>>)
        is_afternoon == TupleLeq(<<13, 0>>, current_time) /\ TupleLeq(current_time, <<15, 0>>)
    IN  is_morning \/ is_afternoon

is_trading_hours(check_time) ==
    IF ~is_trading_day(check_time) THEN FALSE
    ELSE InSession(<<check_time.hour, check_time.minute>>)

\* the years the checks are made in
CalYears == 2023..2028

IsLeap(year) == year % 4 = 0 /\ (year % 100 # 0 \/ year % 400 = 0)

DaysIn(year, month) ==
    IF month = 2 THEN (IF IsLeap(year) THEN 29 ELSE 28)
    ELSE IF month \in {4, 6, 9, 11} THEN 30
    ELSE 31

\* times of the day around the ends of the sessions
CalTimes == { <<0, 0>>, <<8, 59>>, <<9, 0>>, <<10, 45>>, <<11, 30>>, <<11, 31>>, <<12, 59>>,
              <<13, 0>>, <<15, 0>>, <<15, 1>>, <<23, 59>> }

\* datetime values
CalInputs ==
    { [year |-> y, month |-> m, day |-> d, hour |-> t[1], minute |-> t[2]] :
        y \in CalYears, m \in 1..12, d \in 1..31, t \in CalTimes }

NoCheck == [called |-> FALSE, trading_day |-> FALSE, trading_hours |-> FALSE]

\* is_trading_day(now) and is_trading_hours(now)
CheckCalendar ==
    /\ ~calRes.called
    /\ \E now \in CalInputs :
          /\ now.day <= DaysIn(now.year, now.month)
          /\ calTime' = now
          /\ calRes' = [called |-> TRUE, trading_day |-> is_trading_day(now),
                        trading_hours |-> is_trading_hours(now)]
    /\ UNCHANGED calOthers

IdleCalendar ==
    /\ calTime = [year |-> 2024, month |-> 1, day |-> 1, hour |-> 0, minute |-> 0]
    /\ calRes = NoCheck

\* the caller goes on
CalendarReturn ==
    /\ calRes.called
    /\ calTime' = [year |-> 2024, month |-> 1, day |-> 1, hour |-> 0, minute |-> 0]
    /\ calRes' = NoCheck
    /\ UNCHANGED calOthers

NextCalendar == CheckCalendar \/ CalendarReturn

\* C13: is_trading_day is false on Saturdays, Sundays, the fixed holidays,
\* the Lunar New Year days and Hung Kings day, and true on every other day;
\* is_trading_hours is true exactly on a trading day at a time within
\* 09:00-11:30 or 13:00-15:00.  The first three days of the lunar years 2023
\* and 2028 are 22-24 January 2023 and 26-28 January 2028.
C13_TradingCalendar ==
    calRes.called =>
        LET md == <<calTime.month, calTime.day>>
            tet == IF calTime.year \in DOMAIN LUNAR_NEW_YEAR THEN LUNAR_NEW_YEAR[calTime.year]
                   ELSE IF calTime.year = 2023 THEN {<<1, 22>>, <<1, 23>>, <<1, 24>>}
                   ELSE IF calTime.year = 2028 THEN {<<1, 26>>, <<1, 27>>, <<1, 28>>}
                   ELSE {}
            hung == IF calTime.year \in DOMAIN HUNG_VUONG THEN {HUNG_VUONG[calTime.year]}
                    ELSE {}
            closed == \/ Weekday(calTime) \in {5, 6}
                      \/ md \in FIXED_HOLIDAYS \cup tet \cup hung
            hm == <<calTime.hour, calTime.minute>>
            session == \/ (hm[1] * 60 + hm[2] >= 9 * 60 /\ hm[1] * 60 + hm[2] <= 11 * 60 + 30)
                       \/ (hm[1] * 60 + hm[2] >= 13 * 60 /\ hm[1] * 60 + hm[2] <= 15 * 60)
        IN  /\ calRes.trading_day = (~closed)
            /\ calRes.trading_hours = (~closed /\ session)

----------------------------------------------------------------------------
(* technical_analysis.py: find_support_resistance.  Prices are integers,   *)
(* in tenths; a value with more decimals is kept as its hundredfold.       *)

\* the frames handed to TechnicalAnalyzer: the high and the low of a bar lie
\* one tenth above and below its close; the closes fall by step from top,
\* rise by step to top, swing around top with a trough and a peak every
\* fourth bar, swing while they drift down to top, or rise and then fall
\* back below where they began; the numbers of bars lie around the
\* thresholds of the code
TaFrames ==
    LET Bar(close) == [high |-> close + 1, low |-> close - 1, close |-> close]
        Falling(n, top, step) == [i \in 1..n |-> Bar(top - step * (i - 1))]
        Rising(n, top, step) == [i \in 1..n |-> Bar(top - step * (n - i))]
        Swinging(n, top, step) ==
            [i \in 1..n |-> Bar(top + step * (CASE i % 4 = 0 -> 0 [] i % 4 = 1 -> 1
                                                  [] i % 4 = 2 -> 0 [] OTHER -> -1))]
        Sliding(n, top, step) ==
            [i \in 1..n |-> Bar(top + (n - i) + step * (CASE i % 4 = 0 -> 0 [] i % 4 = 1 -> 2
                                                            [] i % 4 = 2 -> 0 [] OTHER -> -2))]
        Peaked(n, top, step) ==
            [i \in 1..n |-> Bar(IF 2 * i <= n THEN top - step * (n \div 2 - i)
                                ELSE top - 2 * step * (i - n \div 2))]
    IN  UNION { { Falling(n, top, step), Rising(n, top, step), Swinging(n, top, step),
                  Sliding(n, top, step), Peaked(n, top, step) } :
                n \in {19, 20, 21, 30, 49, 50, 51, 60, 61, 64},
                top \in {4000, 5000}, step \in {2, 3, 5} }

\* df.tail(k)
TailOf(df, k) == IF Len(df) > k THEN SubSeq(df, Len(df) - k + 1, Len(df)) ELSE df

RECURSIVE SumCloses(_)
SumCloses(df) == IF df = <<>> THEN 0 ELSE Head(df).close + SumCloses(Tail(df))

\* get_current_price, as a hundredfold
get_current_price(df) == IF df = <<>> THEN 0 ELSE 100 * df[Len(df)].close

\* get_ma(50), as a hundredfold: the rolling mean of 50 closes is NaN on
\* every row of a frame of fewer than 50 bars, and then 0 is returned
get_ma50(df) ==
    IF Len(df) < 20 \/ Len(df) < 50 THEN 0
    ELSE 2 * SumCloses(TailOf(df, 50))

SetMax(S) == CHOOSE x \in S : \A y \in S : y <= x

SetMin(S) == CHOOSE x \in S : \A y \in S : x <= y

\* round(float(x), 1), from a hundredfold to tenths
RoundTenth(x) == (x + 50) \div 100

\* find_support_resistance; the result is in tenths
find_support_resistance(df) ==
    IF Len(df) < 20 THEN [support |-> 0, resistance |-> 0]
    ELSE LET recent == TailOf(df, 60)
             price == get_current_price(df)
             n == Len(recent)
             supports == { 100 * recent[i].low : i \in
                             { j \in 3..(n - 2) :
                                 /\ recent[j].low < recent[j - 1].low
                                 /\ recent[j].low < recent[j - 2].low
                                 /\ recent[j].low < recent[j + 1].low
                                 /\ recent[j].low < recent[j + 2].low
                                 /\ 100 * recent[j].low < price } }
             resistances == { 100 * recent[i].high : i \in
                             { j \in 3..(n - 2) :
                                 /\ recent[j].high > recent[j - 1].high
                                 /\ recent[j].high > recent[j - 2].high
                                 /\ recent[j].high > recent[j + 1].high
                                 /\ recent[j].high > recent[j + 2].high
                                 /\ 100 * recent[j].high > price } }
             support0 == IF supports # {} THEN SetMax(supports) ELSE get_ma50(df)
             support == IF support0 = 0 THEN (price * 95) \div 100 ELSE support0
             resistance0 == IF resistances # {} THEN SetMin(resistances)
                            ELSE SetMax({100 * recent[i].high : i \in 1..n})
             resistance == IF resistance0 <= price THEN (price * 110) \div 100
                           ELSE resistance0
         IN  [support |-> RoundTenth(support), resistance |-> RoundTenth(resistance)]

NoAnalysis == [called |-> FALSE, support |-> 0, resistance |-> 0]

\* TechnicalAnalyzer(df).find_support_resistance()
Analyse ==
    /\ ~taRes.called
    /\ \E df \in TaFrames :
          LET r == find_support_resistance(df)
          IN  /\ taFrame' = df
              /\ taRes' = [called |-> TRUE, support |-> r.support,
                           resistance |-> r.resistance]
    /\ UNCHANGED taOthers

\* the caller goes on
AnalyseReturn ==
    /\ taRes.called
    /\ taFrame' = <<>>
    /\ taRes' = NoAnalysis
    /\ UNCHANGED taOthers

IdleAnalysis == taFrame = <<>> /\ taRes = NoAnalysis

NextAnalysis == Analyse \/ AnalyseReturn

\* C14: with at least 20 bars, the support returned is below the current
\* price and the resistance returned is above it.
C14_SupportBelowResistanceAbove ==
    (taRes.called /\ Len(taFrame) >= 20) =>
        /\ taRes.support < taFrame[Len(taFrame)].close
        /\ taFrame[Len(taFrame)].close < taRes.resistance

----------------------------------------------------------------------------
(* watchlist.py: two clients on the same watchlist sheet.  rcGrid is        *)
(* column A of the worksheet, the header row included; every gspread call   *)
(* of a client is one step.                                                 *)

Clients == {1, 2}

\* headers[0] of the worksheet that add_to_watchlist creates
TickerHeader == <<"t", "i", "c", "k", "e", "r">>

RaceTickers == { <<"A", "B">>, <<"C", "D">> }

\* the calls a client makes
RaceCalls ==
    [op : {"add", "remove"}, ticker : RaceTickers]
        \cup {[op |-> "metrics", ticker |-> <<>>]}

\* ws.get_all_records() and the look at existing_df['ticker']: a grid of at
\* most one row gives an empty frame; a first row that is not the header
\* gives a frame without a 'ticker' column, and the look raises KeyError
\* (two clients with one call each never read such a grid)
get_all_records(grid) ==
    IF Len(grid) <= 1 THEN [raises |-> FALSE, rows |-> <<>>]
    ELSE IF grid[1] # TickerHeader THEN [raises |-> TRUE, rows |-> <<>>]
    ELSE [raises |-> FALSE, rows |-> Tail(grid)]

\* ws.update(rows): the rows are written from A1 down, the rows below them
\* stay as they are
Overlay(grid, rows) == rows \o SubSeq(grid, Len(rows) + 1, Len(grid))

\* a client enters add_to_watchlist, remove_from_watchlist or
\* update_watchlist_metrics
RaceCall(c) ==
    /\ rcPc[c] = "idle"
    /\ \E call \in RaceCalls : rcCall' = [rcCall EXCEPT ![c] = call]
    /\ rcPc' = [rcPc EXCEPT ![c] = "read"]
    /\ UNCHANGED <<rcGrid, rcCopy, rcOk>>
    /\ UNCHANGED rcOthers

\* existing_data = ws.get_all_records() and the test that follows it
RaceRead(c) ==
    /\ rcPc[c] = "read"
    /\ LET got == get_all_records(rcGrid)
           has == rcCall[c].ticker \in RecordTickers(got.rows)
           op == rcCall[c].op
           returns == \/ got.raises
                      \/ op = "add" /\ has
                      \/ op = "remove" /\ ~has
                      \/ op = "metrics" /\ got.rows = <<>>
       IN  /\ rcPc' = [rcPc EXCEPT ![c] =
                         IF returns THEN "done" ELSE IF op = "add" THEN "append" ELSE "clear"]
           /\ rcOk' = [rcOk EXCEPT ![c] = returns /\ ~got.raises /\ op # "remove"]
           /\ rcCopy' = [rcCopy EXCEPT ![c] =
                           IF returns \/ op = "add" THEN <<>>
                           ELSE IF op = "remove"
                                THEN FilterOut(got.rows, got.rows, rcCall[c].ticker)
                                ELSE got.rows]
    /\ UNCHANGED <<rcGrid, rcCall>>
    /\ UNCHANGED rcOthers

\* ws.append_row(new_row) and return True
RaceAppend(c) ==
    /\ rcPc[c] = "append"
    /\ rcGrid' = Append(rcGrid, rcCall[c].ticker)
    /\ rcPc' = [rcPc EXCEPT ![c] = "done"]
    /\ rcOk' = [rcOk EXCEPT ![c] = TRUE]
    /\ UNCHANGED <<rcCall, rcCopy>>
    /\ UNCHANGED rcOthers

\* ws.clear()
RaceClear(c) ==
    /\ rcPc[c] = "clear"
    /\ rcGrid' = <<>>
    /\ rcPc' = [rcPc EXCEPT ![c] = "update"]
    /\ UNCHANGED <<rcCall, rcCopy, rcOk>>
    /\ UNCHANGED rcOthers

\* ws.update([columns] + rows) and return True
RaceUpdate(c) ==
    /\ rcPc[c] = "update"
    /\ rcGrid' = Overlay(rcGrid, <<TickerHeader>> \o rcCopy[c])
    /\ rcPc' = [rcPc EXCEPT ![c] = "done"]
    /\ rcOk' = [rcOk EXCEPT ![c] = TRUE]
    /\ UNCHANGED <<rcCall, rcCopy>>
    /\ UNCHANGED rcOthers

NoRaceCall == [op |-> "none", ticker |-> <<>>]

\* the sheet with its header row, and nobody at work
IdleRace ==
    /\ rcGrid = <<TickerHeader>>
    /\ rcPc = [c \in Clients |-> "idle"]
    /\ rcCall = [c \in Clients |-> NoRaceCall]
    /\ rcCopy = [c \in Clients |-> <<>>]
    /\ rcOk = [c \in Clients |-> FALSE]

\* the sheet with its header row and no, one or two tickers
InitRace ==
    /\ rcGrid \in { <<TickerHeader>>, <<TickerHeader, <<"A", "B">> >>,
                    <<TickerHeader, <<"A", "B">>, <<"C", "D">> >> }
    /\ rcPc = [c \in Clients |-> "idle"]
    /\ rcCall = [c \in Clients |-> NoRaceCall]
    /\ rcCopy = [c \in Clients |-> <<>>]
    /\ rcOk = [c \in Clients |-> FALSE]

NextRace ==
    \E c \in Clients :
        RaceCall(c) \/ RaceRead(c) \/ RaceAppend(c) \/ RaceClear(c) \/ RaceUpdate(c)

\* C16: when both clients have returned, every ticker that add_to_watchlist
\* added with success, and that no client was asked to remove, has a row,
\* and no ticker has two rows.
C16_NoLostNoDouble ==
    (\A c \in Clients : rcPc[c] = "done") =>
        /\ \A c \in Clients :
              (/\ rcCall[c].op = "add"
               /\ rcOk[c]
               /\ \A d \in Clients :
                     ~(rcCall[d].op = "remove" /\ rcCall[d].ticker = rcCall[c].ticker))
                  => rcCall[c].ticker \in SeqToSet(rcGrid)
        /\ \A i, j \in 1..Len(rcGrid) :
              (rcGrid[i] \in RaceTickers /\ rcGrid[i] = rcGrid[j]) => i = j

vars == <<finVars, archVars, alertVars, cfgVars, priceVars, wlVars, calVars, taVars, rcVars>>

Init == InitFinance /\ InitArchive /\ IdleAlerts /\ InitConfig /\ IdlePrice /\ IdleWatch /\ IdleCalendar /\ IdleAnalysis /\ IdleRace

Next == WriteToSheet \/ WriteReturn

Spec == Init /\ [][Next]_vars

SpecArchive == Init /\ [][NextArchive]_vars

AlertsInit ==
    InitFinance /\ InitArchive /\ InitAlerts /\ InitConfig /\ IdlePrice /\ IdleWatch /\ IdleCalendar /\ IdleAnalysis /\ IdleRace

SpecAlerts == AlertsInit /\ [][NextAlerts]_vars

SpecConfig == Init /\ [][NextConfig]_vars

PriceInit ==
    InitFinance /\ InitArchive /\ IdleAlerts /\ InitConfig /\ InitPrice /\ IdleWatch /\ IdleCalendar /\ IdleAnalysis /\ IdleRace

SpecPrice == PriceInit /\ [][NextPrice]_vars

WatchInit ==
    InitFinance /\ InitArchive /\ IdleAlerts /\ InitConfig /\ IdlePrice /\ InitWatch /\ IdleCalendar /\ IdleAnalysis /\ IdleRace

SpecTicker == WatchInit /\ [][NextWatch]_vars

SpecWatchlist == WatchInit /\ [][NextWatchlist]_vars

SpecCalendar == Init /\ [][NextCalendar]_vars

SpecAnalysis == Init /\ [][NextAnalysis]_vars

RaceInit ==
    InitFinance /\ InitArchive /\ IdleAlerts /\ InitConfig /\ IdlePrice /\ IdleWatch /\ IdleCalendar /\ IdleAnalysis /\ InitRace

SpecRace == RaceInit /\ [][NextRace]_vars

====
